---- MODULE Spec2Model ----
(***************************************************************************)
(* The ref-based element resolution of the browse plugin's Browserbase     *)
(* backend (plugins/browse/src/bb-browser.ts): the normalisation of the    *)
(* CDP accessibility nodes into a tree, the snapshot walk that fills the   *)
(* process-wide ref map, and the click / fill / select resolution of a     *)
(* ref against the live page; the safeTool wrapper of the MCP server; and  *)
(* the connection: the session cache of browserbase.ts, getPage, the tab   *)
(* tools and bbClose.                                                      *)
(*                                                                         *)
(* A string is a sequence of symbols.  A symbol is one character ("@",     *)
(* ":", "0") or a run of letters that no code path looks into ("button",   *)
(* "Save"); such a run never holds a ":" or a prefix character.            *)
(***************************************************************************)
EXTENDS Integers, Sequences, FiniteSets, TLC

VARIABLES
    refMap,     \* _refMap: ref token -> RefEntry
    page,       \* the CDP accessibility nodes of the live page (the browser's side)
    last,       \* the outcome of the most recent tool call
    T1,         \* the tokens of the trees walked by the snapshots before the latest one
    T2,         \* the tokens of the tree walked by the latest snapshot
    reply,      \* what the tool handler returns to the MCP caller
    cachedSession,  \* _cachedSession: 0 for null, or a session id
    browser,    \* _browser: 0 for null, or a connection id
    context,    \* _context: 0 for null, or the connection id of the context
    curPage,    \* _page: NoPage for null, or a page (pages are numbered as they are made)
    open,       \* the pages that are not closed
    calls,      \* the tool calls in flight, by slot: where each one stands
    sessionsMade,   \* how many sessions the provider has created
    connsMade,  \* how many CDP connections were opened
    connOf,     \* the connection of every page made so far
    made,       \* the sessions created since the last clearCachedSession
    returned,   \* the sessions getOrCreateSession returned since then
    liveConns   \* the CDP connections that are open

treeVars == <<refMap, page, last, T1, T2, reply>>

connVars == <<cachedSession, browser, context, curPage, open, calls,
              sessionsMade, connsMade, connOf, made, returned, liveConns>>

vars == <<refMap, page, last, T1, T2, reply, cachedSession, browser, context,
          curPage, open, calls, sessionsMade, connsMade, connOf, made, returned,
          liveConns>>

----------------------------------------------------------------------------
(* Strings *)

EmptyStr == <<>>

Join(parts, sep) ==
    LET RECURSIVE J(_)
        J(i) == IF i > Len(parts) THEN <<>>
                ELSE IF i = Len(parts) THEN parts[i]
                ELSE parts[i] \o sep \o J(i + 1)
    IN J(1)

Repeat(s, n) ==
    LET RECURSIVE R(_)
        R(k) == IF k = 0 THEN <<>> ELSE s \o R(k - 1)
    IN R(n)

DigitChars == <<"0", "1", "2", "3", "4", "5", "6", "7", "8", "9">>

RECURSIVE NumStr(_)
NumStr(n) ==
    IF n < 10 THEN <<DigitChars[n + 1]>>
    ELSE NumStr(n \div 10) \o <<DigitChars[(n % 10) + 1]>>

\* String.prototype.includes over symbols (Playwright's non-exact name match)
Includes(hay, needle) ==
    \E i \in 0..(Len(hay) - Len(needle)) :
        SubSeq(hay, i + 1, i + Len(needle)) = needle

LowerChar(c) ==
    CASE c = "R" -> "r"
      [] c = "E" -> "e"
      [] c = "F" -> "f"
      [] OTHER -> c

----------------------------------------------------------------------------
(* The canonical tree: AXNode *)

SKIP_ROLES == {<<"none">>, <<"generic">>, <<"InlineTextBox">>, <<"LineBreak">>,
               <<"StaticText">>}

INTERACTIVE_ROLES ==
    {<<"link">>, <<"button">>, <<"textbox">>, <<"checkbox">>, <<"radio">>,
     <<"combobox">>, <<"listbox">>, <<"menuitem">>, <<"menuitemcheckbox">>,
     <<"menuitemradio">>, <<"option">>, <<"searchbox">>, <<"slider">>,
     <<"spinbutton">>, <<"switch">>, <<"tab">>, <<"treeitem">>}

isInteractive(role) == role \in INTERACTIVE_ROLES

\* An AXNode.  value = <<>> stands for "no value" (an empty value is never
\* stored), checked = "absent" for "no checked field".
AXNode(role, name, value, checked, disabled, focused, children) ==
    [role |-> role, name |-> name, value |-> value, checked |-> checked,
     disabled |-> disabled, focused |-> focused, children |-> children]

\* nodeMap.get(id): the last node of the array with that id, <<>> if none
NodeMapGet(cdpNodes, id) ==
    LET hits == {i \in 1..Len(cdpNodes) : cdpNodes[i].nodeId = id}
    IN IF hits = {} THEN <<>>
       ELSE <<cdpNodes[CHOOSE i \in hits : \A j \in hits : j <= i]>>

\* An elided node that passes on its first child only
ElideKeepsFirst(children) ==
    IF Len(children) = 0 THEN <<>> ELSE <<children[1]>>

\* An elided node that passes its children on in reverse order
ElideReversed(children) ==
    IF Len(children) = 1 THEN <<children[1]>>
    ELSE IF Len(children) = 0 THEN <<>>
    ELSE <<AXNode(<<"group">>, EmptyStr, EmptyStr, "absent", FALSE, FALSE,
                  [i \in 1..Len(children) |-> children[Len(children) + 1 - i]])>>

\* An elided node without children that stays as a leaf
ElideKeepsLeaf(children) ==
    IF Len(children) = 1 THEN <<children[1]>>
    ELSE IF Len(children) = 0
    THEN <<AXNode(<<"generic">>, EmptyStr, EmptyStr, "absent", FALSE, FALSE, <<>>)>>
    ELSE <<AXNode(<<"group">>, EmptyStr, EmptyStr, "absent", FALSE, FALSE, children)>>

\* The three-way return of an elided node in compact mode
Elide(children) ==
    IF Len(children) = 1 THEN <<children[1]>>
    ELSE IF Len(children) = 0 THEN <<>>
    ELSE <<AXNode(<<"group">>, EmptyStr, EmptyStr, "absent", FALSE, FALSE, children)>>

\* A property value as CDP delivers it: a boolean or a string.
JSBool(b) == [t |-> "bool", b |-> b, s |-> <<>>]
JSStr(s) == [t |-> "str", b |-> FALSE, s |-> s]

\* JavaScript's Boolean(v): a boolean is itself, a string is true unless empty
Boolean(v) == IF v.t = "bool" THEN v.b ELSE v.s # <<>>

\* The value of the last property of that name (the switch runs on every
\* property in order, so a later one overwrites), <<>> if there is none.
LastProp(properties, propName) ==
    LET hits == {i \in 1..Len(properties) : properties[i].name = propName}
    IN IF hits = {} THEN <<>>
       ELSE <<properties[CHOOSE i \in hits : \A j \in hits : j <= i].value>>

\* case 'checked': "mixed" only for the string 'mixed', else Boolean(value)
ExtractChecked(properties) ==
    LET p == LastProp(properties, "checked")
    IN IF p = <<>> THEN "absent"
       ELSE IF p[1].t = "str" /\ p[1].s = <<"mixed">> THEN "mixed"
       ELSE IF Boolean(p[1]) THEN "true" ELSE "false"

\* case 'disabled' / 'focused': Boolean(value); the field is kept only if true
ExtractFlag(properties, propName) ==
    LET p == LastProp(properties, propName)
    IN IF p = <<>> THEN FALSE ELSE Boolean(p[1])

\* convert returns <<>> for null and <<node>> for a node.
RECURSIVE convert(_, _, _)
RECURSIVE convertChildren(_, _, _, _)
\* A children loop that stops at the first id that names no node
convertChildrenStopsAtUnknown(cdpNodes, compact, childIds, i) ==
    IF i > Len(childIds) THEN <<>>
    ELSE LET childCdp == NodeMapGet(cdpNodes, childIds[i])
         IN IF childCdp = <<>> THEN <<>>
            ELSE convert(cdpNodes, compact, childCdp[1])
                    \o convertChildren(cdpNodes, compact, childIds, i + 1)

convertChildren(cdpNodes, compact, childIds, i) ==
    IF i > Len(childIds) THEN <<>>
    ELSE LET childCdp == NodeMapGet(cdpNodes, childIds[i])
             childNode == IF childCdp = <<>> THEN <<>>
                          ELSE convert(cdpNodes, compact, childCdp[1])
         IN childNode \o convertChildren(cdpNodes, compact, childIds, i + 1)

\* A conversion that does not look at the ignored flag
convertShowsIgnored(cdpNodes, compact, cdpNode) ==
    LET children == convertChildren(cdpNodes, compact, cdpNode.childIds, 1)
    IN IF compact /\ cdpNode.role \in SKIP_ROLES /\ cdpNode.name = EmptyStr
       THEN Elide(children)
       ELSE <<AXNode(cdpNode.role, cdpNode.name, cdpNode.value,
                     ExtractChecked(cdpNode.properties),
                     ExtractFlag(cdpNode.properties, "disabled"),
                     ExtractFlag(cdpNode.properties, "focused"),
                     children)>>

\* A compact mode that elides the noise roles whatever the name
convertElidesNamed(cdpNodes, compact, cdpNode) ==
    IF cdpNode.ignored THEN <<>>
    ELSE LET children == convertChildren(cdpNodes, compact, cdpNode.childIds, 1)
         IN IF compact /\ cdpNode.role \in SKIP_ROLES
            THEN Elide(children)
            ELSE <<AXNode(cdpNode.role, cdpNode.name, cdpNode.value,
                          ExtractChecked(cdpNode.properties),
                          ExtractFlag(cdpNode.properties, "disabled"),
                          ExtractFlag(cdpNode.properties, "focused"),
                          children)>>

\* Every node of the model carries a role, so the 'unknown' default of a
\* missing role is not drawn on; a missing name is the empty name.
convert(cdpNodes, compact, cdpNode) ==
    IF cdpNode.ignored THEN <<>>
    ELSE LET role == cdpNode.role
             name == cdpNode.name
             value == cdpNode.value
             children == convertChildren(cdpNodes, compact, cdpNode.childIds, 1)
         IN IF compact /\ role \in SKIP_ROLES /\ name = EmptyStr
            THEN Elide(children)
            ELSE <<AXNode(role, name, value,
                          ExtractChecked(cdpNode.properties),
                          ExtractFlag(cdpNode.properties, "disabled"),
                          ExtractFlag(cdpNode.properties, "focused"),
                          children)>>

\* A normalizer that roots the tree at the first node that is not ignored
cdpNodesToTreeFirstShown(cdpNodes, compact) ==
    LET shown == {i \in 1..Len(cdpNodes) : ~cdpNodes[i].ignored}
    IN IF shown = {} THEN <<>>
       ELSE convert(cdpNodes, compact, cdpNodes[CHOOSE i \in shown : \A j \in shown : i <= j])

cdpNodesToTree(cdpNodes, compact) ==
    IF Len(cdpNodes) = 0 THEN <<>>
    ELSE convert(cdpNodes, compact, cdpNodes[1])

----------------------------------------------------------------------------
(* The snapshot walk: buildRefTree *)

EmptyMap == [k \in {} |-> 0]

MapSet(m, k, v) == [x \in (DOMAIN m) \cup {k} |-> IF x = k THEN v ELSE m[x]]

MapGet(m, k, default) == IF k \in DOMAIN m THEN m[k] ELSE default

RefEntry(role, name, index) == [role |-> role, name |-> name, index |-> index]

\* The token numbered after the increment of refIdx
RefTokenOneBased(refIdx) == <<"0", "-">> \o NumStr(refIdx + 1)

\* `0-${refIdx}`
RefToken(refIdx) == <<"0", "-">> \o NumStr(refIdx)

\* `${node.role}::${node.name}`
RoleKey(role, name) == role \o <<":", ":">> \o name

Quoted(s) == <<"\"">> \o s \o <<"\"">>

\* A display line that prints the checked field only when it is not false
DisplayLineOmitsUnchecked(node, ref, depth) ==
    LET parts ==
            (IF isInteractive(node.role) THEN <<<<"[">> \o ref \o <<"]">>>> ELSE <<>>)
            \o <<node.role>>
            \o (IF node.name # EmptyStr THEN <<Quoted(node.name)>> ELSE <<>>)
            \o (IF node.value # EmptyStr
                THEN <<<<"value=">> \o Quoted(node.value)>> ELSE <<>>)
            \o (IF node.checked \notin {"absent", "false"}
                THEN <<<<"checked=", node.checked>>>> ELSE <<>>)
            \o (IF node.disabled THEN <<<<"disabled">>>> ELSE <<>>)
            \o (IF node.focused THEN <<<<"focused">>>> ELSE <<>>)
    IN Repeat(<<" ", " ">>, depth) \o Join(parts, <<" ">>)

\* The display line of one node: the parts, space-joined, after the indent
DisplayLine(node, ref, depth) ==
    LET parts ==
            (IF isInteractive(node.role) THEN <<<<"[">> \o ref \o <<"]">>>> ELSE <<>>)
            \o <<node.role>>
            \o (IF node.name # EmptyStr THEN <<Quoted(node.name)>> ELSE <<>>)
            \o (IF node.value # EmptyStr
                THEN <<<<"value=">> \o Quoted(node.value)>> ELSE <<>>)
            \o (IF node.checked # "absent"
                THEN <<<<"checked=", node.checked>>>> ELSE <<>>)
            \o (IF node.disabled THEN <<<<"disabled">>>> ELSE <<>>)
            \o (IF node.focused THEN <<<<"focused">>>> ELSE <<>>)
    IN Repeat(<<" ", " ">>, depth) \o Join(parts, <<" ">>)

\* The walk threads the closure's state: the ref map, the lines, the
\* roleCounts and refIdx.
RECURSIVE walk(_, _, _)
RECURSIVE walkChildren(_, _, _, _)
walkChildren(st, children, i, depth) ==
    IF i > Len(children) THEN st
    ELSE walkChildren(walk(st, children[i], depth), children, i + 1, depth)

\* A walk that stores an entry for the nodes of an interactive role only
walkInteractiveOnly(st, node, depth) ==
    LET ref == RefToken(st.refIdx)
        roleKey == RoleKey(node.role, node.name)
        count == MapGet(st.roleCounts, roleKey, 0)
        st1 == [refMap |-> IF isInteractive(node.role)
                           THEN MapSet(st.refMap, ref, RefEntry(node.role, node.name, count))
                           ELSE st.refMap,
                roleCounts |-> MapSet(st.roleCounts, roleKey, count + 1),
                refIdx |-> st.refIdx + 1,
                lines |-> Append(st.lines, DisplayLine(node, ref, depth))]
    IN walkChildren(st1, node.children, 1, depth + 1)

walk(st, node, depth) ==
    LET ref == RefToken(st.refIdx)
        roleKey == RoleKey(node.role, node.name)
        count == MapGet(st.roleCounts, roleKey, 0)
        st1 == [refMap |-> MapSet(st.refMap, ref, RefEntry(node.role, node.name, count)),
                roleCounts |-> MapSet(st.roleCounts, roleKey, count + 1),
                refIdx |-> st.refIdx + 1,
                lines |-> Append(st.lines, DisplayLine(node, ref, depth))]
    IN walkChildren(st1, node.children, 1, depth + 1)

\* buildRefTree without the _refMap.clear() that opens it
buildRefTreeNoClear(before, root) ==
    LET st == walk([refMap |-> before, roleCounts |-> EmptyMap, refIdx |-> 0,
                    lines |-> <<>>], root, 0)
    IN [refMap |-> st.refMap, lines |-> st.lines]

\* buildRefTree with a ref counter that goes on from the size of the map
\* it found
buildRefTreeCountsOn(before, root) ==
    LET st == walk([refMap |-> EmptyMap, roleCounts |-> EmptyMap,
                    refIdx |-> Cardinality(DOMAIN before), lines |-> <<>>], root, 0)
    IN [refMap |-> st.refMap, lines |-> st.lines]

\* buildRefTree(root) run on the ref map `before`: the map it leaves and the
\* lines it returns (joined with "\n" by the caller's view of the text)
buildRefTree(before, root) ==
    LET st == walk([refMap |-> EmptyMap, roleCounts |-> EmptyMap, refIdx |-> 0,
                    lines |-> <<>>], root, 0)
    IN [refMap |-> st.refMap, lines |-> st.lines]

\* lines.join('\n'): the text buildRefTree returns
SnapshotText(lines) == Join(lines, <<"\n">>)

----------------------------------------------------------------------------
(* Ref resolution *)

\* The replace without the i flag
CleanRefCaseSensitive(ref) ==
    IF Len(ref) >= 1 /\ ref[1] = "@" THEN Tail(ref)
    ELSE IF /\ Len(ref) >= 4
            /\ ref[1] = "r" /\ ref[2] = "e" /\ ref[3] = "f" /\ ref[4] = "="
         THEN SubSeq(ref, 5, Len(ref))
    ELSE ref

\* ref.replace(/^[@]|^ref=/i, ''): the first match only, at the start
CleanRef(ref) ==
    IF Len(ref) >= 1 /\ ref[1] = "@" THEN Tail(ref)
    ELSE IF /\ Len(ref) >= 4
            /\ LowerChar(ref[1]) = "r" /\ LowerChar(ref[2]) = "e"
            /\ LowerChar(ref[3]) = "f" /\ ref[4] = "="
         THEN SubSeq(ref, 5, Len(ref))
    ELSE ref

\* A lookup that falls back to the first entry of the map for an unknown token
resolveRefFallback(map, ref) ==
    LET clean == CleanRef(ref)
    IN IF clean \in DOMAIN map THEN <<map[clean]>>
       ELSE IF <<"0", "-", "0">> \in DOMAIN map THEN <<map[<<"0", "-", "0">>]>>
       ELSE <<>>

\* resolveRef: <<entry>>, or <<>> when it throws the unknown-ref error
resolveRef(map, ref) ==
    LET clean == CleanRef(ref)
    IN IF clean \in DOMAIN map THEN <<map[clean]>> ELSE <<>>

----------------------------------------------------------------------------
(* The live page, as the element queries see it *)

RECURSIVE PreOrder(_)
RECURSIVE PreOrderAll(_, _)
PreOrderAll(children, i) ==
    IF i > Len(children) THEN <<>>
    ELSE PreOrder(children[i]) \o PreOrderAll(children, i + 1)

\* The nodes of a tree, parent before children, children left to right
PreOrder(node) == <<node>> \o PreOrderAll(node.children, 1)

PreOrderOf(tree) == IF tree = <<>> THEN <<>> ELSE PreOrder(tree[1])

\* The elements of the live page in document order: every node the browser
\* exposes (not ignored, reachable from the root)
LiveElements(cdpNodes) == PreOrderOf(cdpNodesToTree(cdpNodes, FALSE))

\* page.getByRole(entry.role, {name: entry.name, exact: false}): the
\* positions, in document order, of the live elements of that role whose
\* name contains entry.name
getByRole(cdpNodes, entry) ==
    LET live == LiveElements(cdpNodes)
        RECURSIVE Pick(_)
        Pick(i) == IF i > Len(live) THEN <<>>
                   ELSE (IF live[i].role = entry.role /\ Includes(live[i].name, entry.name)
                         THEN <<i>> ELSE <<>>) \o Pick(i + 1)
    IN Pick(1)

----------------------------------------------------------------------------
(* Tool results *)

UnknownRefMessage(ref) ==
    <<"Unknown ref \"">> \o ref \o <<"\". Run browser_snapshot first to get current refs.">>

NoElementMessage(ref, entry) ==
    <<"No element found for ref ">> \o ref \o <<" (role=">> \o entry.role
        \o <<", name=\"">> \o entry.name \o <<"\")">>

\* The automation library's own timeout error: it names the locator it
\* waited for, not the ref
TimeoutMessage(entry) ==
    <<"Timeout 10000ms exceeded. waiting for getByRole('">> \o entry.role
        \o <<"', { name: '">> \o entry.name \o <<"' })">>

\* status: "ok", or the error the call throws.  entry: what resolveRef
\* returned.  queried: an element query or action reached the page.
\* stage: where a snapshot failed.  cdp: the CDP session of a snapshot
\* ("none": not opened, "attached", "detached").
\* matches: how many live elements matched the entry when the call ran.
\* nth: the 0-based position, among the matches, of the element acted on
\* (-1: none).  acts: the actions applied to it, in order.
Result(op, ref, status, message, entry, queried, matches, nth, acts) ==
    [op |-> op, ref |-> ref, compact |-> FALSE, status |-> status,
     message |-> message, entry |-> entry, queried |-> queried,
     matches |-> matches, nth |-> nth, acts |-> acts,
     text |-> <<>>, walked |-> <<>>, stage |-> "", cdp |-> "none"]

NoCall == Result("none", <<>>, "ok", <<>>, <<>>, FALSE, 0, -1, <<>>)

RefNotFound(op, ref) ==
    Result(op, ref, "RefNotFound", UnknownRefMessage(ref), <<>>, FALSE, 0, -1, <<>>)

\* locator.nth(i) / locator.first() followed by an action with a timeout:
\* the action runs on the element if the locator has one at that position,
\* and times out otherwise
ActOn(op, ref, entry, locator, i, acts) ==
    IF i < Len(locator)
    THEN Result(op, ref, "ok", <<>>, <<entry>>, TRUE, Len(locator), i, acts)
    ELSE Result(op, ref, "Timeout", TimeoutMessage(entry), <<entry>>, TRUE, Len(locator), -1, <<>>)

clickByRef(map, cdpNodes, ref) ==
    LET r == resolveRef(map, ref)
    IN IF r = <<>> THEN RefNotFound("click", ref)
       ELSE LET entry == r[1]
                locator == getByRole(cdpNodes, entry)
                count == Len(locator)
            IN IF count = 0
               THEN Result("click", ref, "ElementNotFound", NoElementMessage(ref, entry),
                           <<entry>>, TRUE, 0, -1, <<>>)
               ELSE IF entry.index > 0 /\ count > entry.index
               THEN ActOn("click", ref, entry, locator, entry.index, <<"click">>)
               ELSE ActOn("click", ref, entry, locator, 0, <<"click">>)

\* A fill that ignores the stored index
fillByRefFirst(map, cdpNodes, ref, pressEnter) ==
    LET r == resolveRef(map, ref)
    IN IF r = <<>> THEN RefNotFound("fill", ref)
       ELSE ActOn("fill", ref, r[1], getByRole(cdpNodes, r[1]), 0,
                  <<"click", "fill">> \o (IF pressEnter THEN <<"Enter">> ELSE <<>>))

fillByRef(map, cdpNodes, ref, pressEnter) ==
    LET r == resolveRef(map, ref)
    IN IF r = <<>> THEN RefNotFound("fill", ref)
       ELSE LET entry == r[1]
                locator == getByRole(cdpNodes, entry)
                target == IF entry.index > 0 THEN entry.index ELSE 0
            IN ActOn("fill", ref, entry, locator, target,
                     <<"click", "fill">> \o (IF pressEnter THEN <<"Enter">> ELSE <<>>))

selectByRef(map, cdpNodes, ref) ==
    LET r == resolveRef(map, ref)
    IN IF r = <<>> THEN RefNotFound("select", ref)
       ELSE LET entry == r[1]
                locator == getByRole(cdpNodes, entry)
                target == IF entry.index > 0 THEN entry.index ELSE 0
            IN ActOn("select", ref, entry, locator, target, <<"selectOption">>)

\* The awaits of bbSnapshot that can throw, in order
FailureStages == <<"getPage", "newCDPSession", "getFullAXTree">>

StageMessage(stage) ==
    IF stage = "getPage" THEN <<"browserType.connectOverCDP: WebSocket error">>
    ELSE IF stage = "newCDPSession" THEN <<"browserContext.newCDPSession: Target closed">>
    ELSE <<"cdpSession.send: Target closed">>

\* A snapshot that leaves its CDP session attached when the request fails
cdpAfterFailureAttached(stage) ==
    IF stage = "getFullAXTree" THEN "attached" ELSE "none"

\* The CDP session after a failure: none was opened before newCDPSession
\* resolved; a failed request runs `finally { await cdp.detach() }`
cdpAfterFailure(stage) ==
    IF stage = "getFullAXTree" THEN "detached" ELSE "none"

\* What a snapshot call leaves: the ref map and the call's result.  A null
\* tree returns '(empty page)' before buildRefTree is reached.
bbSnapshotResult(map, cdpNodes, compact) ==
    LET tree == cdpNodesToTree(cdpNodes, compact)
        built == buildRefTree(map, tree[1])
        res == [Result("snapshot", <<>>, "ok", <<>>, <<>>, FALSE, 0, -1, <<>>)
                    EXCEPT !.compact = compact, !.cdp = "detached"]
    IN IF tree = <<>>
       THEN [refMap |-> map,
             last |-> [res EXCEPT !.text = <<<<"(empty page)">>>>]]
       ELSE [refMap |-> built.refMap,
             last |-> [res EXCEPT !.text = built.lines,
                                  !.walked = PreOrder(tree[1])]]

\* The object a tool function resolves with, as a key and its value:
\* { snapshot: text }, { clicked: ref }, { filled: ref, .. }, { selected: ref, .. }
ToolValue(out) ==
    IF out.op = "snapshot" THEN [key |-> "snapshot", value |-> SnapshotText(out.text)]
    ELSE IF out.op = "click" THEN [key |-> "clicked", value |-> out.ref]
    ELSE IF out.op = "fill" THEN [key |-> "filled", value |-> out.ref]
    ELSE [key |-> "selected", value |-> out.ref]

\* json(obj, isError): the object goes out as the text of the content; the
\* isError field is there (<<TRUE>>) only for an error.  threw: the handler
\* let an exception out instead of returning.
json(obj, isError) ==
    [threw |-> FALSE, content |-> obj, isError |-> IF isError THEN <<TRUE>> ELSE <<>>]

Threw(message) ==
    [threw |-> TRUE, content |-> [success |-> <<>>, key |-> "", value |-> message],
     isError |-> <<>>]

NoReply == [threw |-> FALSE, content |-> [success |-> <<>>, key |-> "", value |-> <<>>],
            isError |-> <<>>]

\* A safeTool whose catch returns the error object without the isError mark
safeToolUnmarked(out) ==
    IF out.status = "ok"
    THEN json([success |-> <<>>] @@ ToolValue(out), FALSE)
    ELSE json([success |-> <<FALSE>>, key |-> "error", value |-> out.message], FALSE)

\* safeTool(fn) for a tool function whose outcome is out: the value it
\* resolved with, or { success: false, error: message } marked isError for
\* whatever it threw
safeTool(out) ==
    IF out.status = "ok"
    THEN json([success |-> <<>>] @@ ToolValue(out), FALSE)
    ELSE json([success |-> <<FALSE>>, key |-> "error", value |-> out.message], TRUE)

----------------------------------------------------------------------------
(* The pages the browser may show *)

Kind(role, name, ignored) == [role |-> role, name |-> name, ignored |-> ignored]

CdpNode(id, kind, childIds) ==
    [nodeId |-> id, role |-> kind.role, name |-> kind.name, value |-> <<>>,
     properties |-> <<>>, childIds |-> childIds, ignored |-> kind.ignored]

RECURSIVE SortedSeq(_)
SortedSeq(S) ==
    IF S = {} THEN <<>>
    ELSE LET m == CHOOSE x \in S : \A y \in S : x <= y
         IN <<m>> \o SortedSeq(S \ {m})

\* Node i > 1 hangs under an earlier node; a node lists its children in
\* increasing id order.  Every ordered tree of n nodes arises this way.
ParentVecs(n) == {f \in [2..n -> 1..n] : \A i \in 2..n : f[i] < i}

MkPage(n, parent, kinds) ==
    [i \in 1..n |-> CdpNode(i, kinds[i], SortedSeq({c \in 2..n : parent[c] = i}))]

\* p is a page of at most maxNodes nodes of these kinds (or the empty array)
IsPageOf(p, maxNodes, kinds) ==
    \E n \in 0..maxNodes : \E f \in ParentVecs(n) : \E ks \in [1..n -> kinds] :
        p = MkPage(n, f, ks)

MaxNodes == 3

MaxTreeNodes == 4

PageKinds == {Kind(<<"generic">>, <<>>, FALSE), Kind(<<"button">>, <<"Save">>, FALSE)}

\* The ref strings a caller may send: every token a page of the model can
\* get and one more, bare and in each accepted surface form
RefPrefixes == {<<>>, <<"@">>, <<"r", "e", "f", "=">>, <<"R", "E", "F", "=">>,
                <<"R", "e", "F", "=">>}

RefInputs == {pre \o RefToken(i) : pre \in RefPrefixes, i \in 0..MaxNodes}

\* The page after its last node went away
RemoveLast(cdpNodes) ==
    LET n == Len(cdpNodes)
    IN [i \in 1..(n - 1) |->
            [cdpNodes[i] EXCEPT !.childIds = SelectSeq(@, LAMBDA c : c # cdpNodes[n].nodeId)]]

----------------------------------------------------------------------------
(* The connection: getOrCreateSession, getPage, the tab tools, bbClose *)

NoPage == 0

MaxSessions == 2

\* How many pages are made in all, over all connections; a connection
\* comes with a page, so this bounds the connections too
MaxPages == 3

\* The tool calls that may be in flight together
Slots == {"a", "b"}

\* Where a call stands (idle, fetch, connect, ready, got, closing, closed),
\* the page getPage returned to it, and the readiness loop's counters:
\* retries as in the code, probes for the evaluate calls made
Call(pc, pg) == [pc |-> pc, page |-> pg, retries |-> 0, probes |-> 0]

IdleCall == Call("idle", NoPage)

\* A getPage that never takes the cached page
PageIsCachedNever(pg, openPages) == FALSE

\* _page && !_page.isClosed()
PageIsCached(pg, openPages) == pg # NoPage /\ pg \in openPages

\* context.pages(): the open pages of a connection's context, oldest first
PagesOf(openPages, conns, c) == SortedSeq({pg \in openPages : conns[pg] = c})

\* The index arguments of bbSwitchTab and bbCloseTab (-1: no index given)
TabIndexes == -1..MaxPages

\* `${n}` for an integer
IntStr(n) == IF n < 0 THEN <<"-">> \o NumStr(0 - n) ELSE NumStr(n)

RangeMessage(target, count) ==
    <<"Tab index ">> \o IntStr(target) \o <<" out of range (0-">>
        \o IntStr(count - 1) \o <<")">>

\* A bbCloseTab that leaves _page as it is
closeTabKeepsCurrent(openPages, conns, cur, pg, index) ==
    LET pages == PagesOf(openPages, conns, conns[pg])
        target == IF index = -1 THEN Len(pages) - 1 ELSE index
    IN IF target < 0 \/ target >= Len(pages)
       THEN [status |-> "Failed", message |-> RangeMessage(target, Len(pages)),
             closed |-> target, open |-> openPages, curPage |-> cur]
       ELSE [status |-> "ok", message |-> <<>>, closed |-> target,
             open |-> openPages \ {pages[target + 1]}, curPage |-> cur]

\* What bbCloseTab does once getPage returned pg: the range error, or the
\* target closed (the last page without an index) and _page set to the last
\* page that remains, if one does
closeTab(openPages, conns, cur, pg, index) ==
    LET c == conns[pg]
        pages == PagesOf(openPages, conns, c)
        target == IF index = -1 THEN Len(pages) - 1 ELSE index
    IN IF target < 0 \/ target >= Len(pages)
       THEN [status |-> "Failed", message |-> RangeMessage(target, Len(pages)),
             closed |-> target, open |-> openPages, curPage |-> cur]
       ELSE LET remaining == PagesOf(openPages \ {pages[target + 1]}, conns, c)
            IN [status |-> "ok", message |-> <<>>, closed |-> target,
                open |-> openPages \ {pages[target + 1]},
                curPage |-> IF Len(remaining) > 0 THEN remaining[Len(remaining)]
                            ELSE cur]

ConnInit ==
    /\ cachedSession = 0
    /\ browser = 0
    /\ context = 0
    /\ curPage = NoPage
    /\ open = {}
    /\ calls = [i \in Slots |-> IdleCall]
    /\ sessionsMade = 0
    /\ connsMade = 0
    /\ connOf = <<>>
    /\ made = {}
    /\ returned = {}
    /\ liveConns = {}

----------------------------------------------------------------------------
(* The state machine *)

TokensOf(tree) == {RefToken(i) : i \in 0..(Len(PreOrderOf(tree)) - 1)}

Init ==
    /\ refMap = EmptyMap
    /\ IsPageOf(page, MaxNodes, PageKinds)
    /\ last = NoCall
    /\ T1 = {}
    /\ T2 = {}
    /\ reply = NoReply
    /\ ConnInit

\* A tool call starts once the previous call's result went back to the caller
Idle == last.op = "none"

\* getPage, newCDPSession or Accessibility.getFullAXTree throws
bbSnapshotFails(compact, stage) ==
    /\ Idle
    /\ last' = [Result("snapshot", <<>>, "Failed", StageMessage(stage), <<>>, FALSE, 0, -1, <<>>)
                    EXCEPT !.compact = compact, !.stage = stage,
                           !.cdp = cdpAfterFailure(stage)]
    /\ reply' = safeTool(last')
    /\ UNCHANGED <<refMap, page, T1, T2>>
    /\ UNCHANGED connVars

bbSnapshot(compact) ==
    LET out == bbSnapshotResult(refMap, page, compact)
        tree == cdpNodesToTree(page, compact)
    IN /\ Idle
       /\ refMap' = out.refMap
       /\ last' = out.last
       /\ T1' = IF tree = <<>> THEN T1 ELSE T1 \cup T2
       /\ T2' = IF tree = <<>> THEN T2 ELSE TokensOf(tree)
       /\ reply' = safeTool(last')
       /\ UNCHANGED page
       /\ UNCHANGED connVars

\* bbClick, bbFill and bbSelect with the connection up: getPage hands back
\* the cached page and the ByRef function runs against it
bbClick(ref) ==
    /\ Idle
    /\ last' = clickByRef(refMap, page, ref)
    /\ reply' = safeTool(last')
    /\ UNCHANGED <<refMap, page, T1, T2>>
    /\ UNCHANGED connVars

bbFill(ref, pressEnter) ==
    /\ Idle
    /\ last' = fillByRef(refMap, page, ref, pressEnter)
    /\ reply' = safeTool(last')
    /\ UNCHANGED <<refMap, page, T1, T2>>
    /\ UNCHANGED connVars

bbSelect(ref) ==
    /\ Idle
    /\ last' = selectByRef(refMap, page, ref)
    /\ reply' = safeTool(last')
    /\ UNCHANGED <<refMap, page, T1, T2>>
    /\ UNCHANGED connVars

\* The reply went back to the caller; the next call may start
Deliver ==
    /\ ~Idle
    /\ last' = NoCall
    /\ reply' = NoReply
    /\ UNCHANGED <<refMap, page, T1, T2>>
    /\ UNCHANGED connVars

\* The page changes under the agent between two calls: its last node goes
\* away.  Starting from every page of the family, this reaches every pair of
\* a stored index k and a number n of live matches with k, n <= MaxNodes.
PageDrift ==
    /\ Len(page) > 0
    /\ page' = RemoveLast(page)
    /\ UNCHANGED <<refMap, last, T1, T2, reply>>
    /\ UNCHANGED connVars

Snapshot == \E compact \in BOOLEAN : bbSnapshot(compact)

SnapshotFails ==
    \E compact \in BOOLEAN, k \in 1..Len(FailureStages) :
        bbSnapshotFails(compact, FailureStages[k])

Click == \E ref \in RefInputs : bbClick(ref)

Fill == \E ref \in RefInputs, pressEnter \in BOOLEAN : bbFill(ref, pressEnter)

Select == \E ref \in RefInputs : bbSelect(ref)

Next == Snapshot \/ SnapshotFails \/ Click \/ Fill \/ Select \/ Deliver \/ PageDrift

Spec == Init /\ [][Next]_vars

----------------------------------------------------------------------------
(* The snapshot alone, over wider families of pages *)

TreeKinds ==
    {Kind(<<"generic">>, <<>>, FALSE),
     Kind(<<"button">>, <<"Save">>, FALSE),
     Kind(<<"StaticText">>, <<"Save">>, FALSE),
     Kind(<<"button">>, <<"Save">>, TRUE)}

\* Roles and names that hold the "::" of the roleKey
KeyKinds ==
    {Kind(<<"a">>, <<"b", ":", ":", "c">>, FALSE),
     Kind(<<"a", ":", ":", "b">>, <<"c">>, FALSE),
     Kind(<<"button">>, <<"Save">>, FALSE)}

\* A name that holds a line break, as the text of a multi-line field does
LineKinds ==
    {Kind(<<"generic">>, <<>>, FALSE),
     Kind(<<"button">>, <<"Save">>, FALSE),
     Kind(<<"textbox">>, <<"a", "\n", "b">>, FALSE)}

\* The raw nodes 1 (RootWebArea "Example", children 2 and 3), 2 (generic,
\* child 4), 4 (button "Go"), 3 (StaticText), in that order
ExamplePage ==
    <<CdpNode(1, Kind(<<"RootWebArea">>, <<"Example">>, FALSE), <<2, 3>>),
      CdpNode(2, Kind(<<"generic">>, <<>>, FALSE), <<4>>),
      CdpNode(4, Kind(<<"button">>, <<"Go">>, FALSE), <<>>),
      CdpNode(3, Kind(<<"StaticText">>, <<>>, FALSE), <<>>)>>

InitTree ==
    /\ refMap = EmptyMap
    /\ \/ IsPageOf(page, MaxTreeNodes, TreeKinds)
       \/ IsPageOf(page, MaxTreeNodes, KeyKinds)
       \/ IsPageOf(page, MaxTreeNodes, LineKinds)
       \/ page = ExamplePage
    /\ last = NoCall
    /\ T1 = {}
    /\ T2 = {}
    /\ reply = NoReply
    /\ ConnInit

NextTree == Snapshot

SpecTree == InitTree /\ [][NextTree]_vars

----------------------------------------------------------------------------
(* The snapshot of one node, over its value and its properties *)

Prop(name, value) == [name |-> name, value |-> value]

\* What the browser may send as the value of a property: a boolean, or one
\* of the strings of a tristate
PropValues == {JSBool(TRUE), JSBool(FALSE), JSStr(<<"mixed">>), JSStr(<<"true">>),
               JSStr(<<"false">>)}

\* No property of that name, or one with one of these values
OptProp(name, values) == {<<>>} \cup {<<Prop(name, v)>> : v \in values}

FieldKinds ==
    {Kind(<<"checkbox">>, <<"Save">>, FALSE),
     Kind(<<"checkbox">>, <<>>, FALSE),
     Kind(<<"StaticText">>, <<"Save">>, FALSE),
     Kind(<<"StaticText">>, <<>>, FALSE)}

InitLine ==
    /\ refMap = EmptyMap
    /\ \E kind \in FieldKinds, value \in {<<>>, <<"v">>},
          checked \in OptProp("checked", PropValues),
          disabled \in OptProp("disabled", {JSBool(TRUE), JSBool(FALSE)}),
          focused \in OptProp("focused", {JSBool(TRUE), JSBool(FALSE)}) :
            page = <<[CdpNode(1, kind, <<>>) EXCEPT
                        !.value = value,
                        !.properties = checked \o disabled \o focused]>>
    /\ last = NoCall
    /\ T1 = {}
    /\ T2 = {}
    /\ reply = NoReply
    /\ ConnInit

NextLine == Snapshot

SpecLine == InitLine /\ [][NextLine]_vars

----------------------------------------------------------------------------
(* The connection's state machine.  A tool call runs from one await to the *)
(* next in one step, so calls in flight interleave at the awaits of        *)
(* getPage, as they do on the event loop.  What a tool does with the page  *)
(* after getPage returned is one step.                                     *)

\* A tool function calls getPage.  The cached page is returned at once.
\* Otherwise the three references are reset and getOrCreateSession is
\* entered: it returns the cached session, or sends the request that
\* creates one.
getPage(i) ==
    /\ calls[i].pc = "idle"
    /\ IF PageIsCached(curPage, open)
       THEN /\ calls' = [calls EXCEPT ![i] = Call("got", curPage)]
            /\ UNCHANGED <<browser, context, curPage, returned>>
       ELSE /\ browser' = 0
            /\ context' = 0
            /\ curPage' = NoPage
            /\ IF cachedSession # 0
               THEN /\ calls' = [calls EXCEPT ![i] = Call("connect", NoPage)]
                    /\ returned' = returned \cup {cachedSession}
               ELSE /\ calls' = [calls EXCEPT ![i] = Call("fetch", NoPage)]
                    /\ UNCHANGED returned
    /\ UNCHANGED <<cachedSession, open, sessionsMade, connsMade, connOf, made, liveConns>>
    /\ UNCHANGED treeVars

\* The provider answers the request with a new session: it is cached and
\* returned
getOrCreateSession(i) ==
    /\ calls[i].pc = "fetch"
    /\ sessionsMade < MaxSessions
    /\ LET session == sessionsMade + 1
       IN /\ sessionsMade' = session
          /\ cachedSession' = session
          /\ made' = made \cup {session}
          /\ returned' = returned \cup {session}
    /\ calls' = [calls EXCEPT ![i].pc = "connect"]
    /\ UNCHANGED <<browser, context, curPage, open, connsMade, connOf, liveConns>>
    /\ UNCHANGED treeVars

\* The request fails (!res.ok): getOrCreateSession throws, and so does the call
SessionFails(i) ==
    /\ calls[i].pc = "fetch"
    /\ calls' = [calls EXCEPT ![i] = IdleCall]
    /\ UNCHANGED <<cachedSession, browser, context, curPage, open, sessionsMade,
                   connsMade, connOf, made, returned, liveConns>>
    /\ UNCHANGED treeVars

\* chromium.connectOverCDP resolves: the browser, its first context and that
\* context's first page are stored (the session comes with both, so neither
\* newContext nor newPage is awaited)
connectOverCDP(i) ==
    /\ calls[i].pc = "connect"
    /\ Len(connOf) < MaxPages
    /\ LET c == connsMade + 1
           pg == Len(connOf) + 1
       IN /\ connsMade' = c
          /\ browser' = c
          /\ context' = c
          /\ curPage' = pg
          /\ open' = open \cup {pg}
          /\ connOf' = Append(connOf, c)
          /\ liveConns' = liveConns \cup {c}
    /\ calls' = [calls EXCEPT ![i].pc = "ready"]
    /\ UNCHANGED <<cachedSession, sessionsMade, made, returned>>
    /\ UNCHANGED treeVars

ConnectFails(i) ==
    /\ calls[i].pc = "connect"
    /\ calls' = [calls EXCEPT ![i] = IdleCall]
    /\ UNCHANGED <<cachedSession, browser, context, curPage, open, sessionsMade,
                   connsMade, connOf, made, returned, liveConns>>
    /\ UNCHANGED treeVars

\* The readiness loop ends and getPage returns _page as it is by then
PageReady(i) ==
    /\ calls[i].pc = "ready"
    /\ calls' = [calls EXCEPT ![i] = Call("got", curPage)]
    /\ UNCHANGED <<cachedSession, browser, context, curPage, open, sessionsMade,
                   connsMade, connOf, made, returned, liveConns>>
    /\ UNCHANGED treeVars

\* `while (retries < 30)`
MaxProbes == 30

\* A readiness loop that goes on whatever the count
MoreProbesForever(retries) == TRUE

MoreProbes(retries) == retries < MaxProbes

\* The readiness loop, probe by probe.  `await _page.evaluate(...)` throws
\* (the page is not ready, or is closed): the catch sleeps and counts.
ProbeFails(i) ==
    /\ calls[i].pc = "ready"
    /\ MoreProbes(calls[i].retries)
    /\ calls' = [calls EXCEPT ![i].retries = @ + 1, ![i].probes = @ + 1]
    /\ UNCHANGED <<cachedSession, browser, context, curPage, open, sessionsMade,
                   connsMade, connOf, made, returned, liveConns>>
    /\ UNCHANGED treeVars

\* The probe resolves, which takes an open page: `break`, `return _page`
ProbeSucceeds(i) ==
    /\ calls[i].pc = "ready"
    /\ MoreProbes(calls[i].retries)
    /\ curPage \in open
    /\ calls' = [calls EXCEPT ![i].pc = "got", ![i].page = curPage, ![i].probes = @ + 1]
    /\ UNCHANGED <<cachedSession, browser, context, curPage, open, sessionsMade,
                   connsMade, connOf, made, returned, liveConns>>
    /\ UNCHANGED treeVars

\* The loop's test fails after the last retry: `return _page` all the same
ProbesExhausted(i) ==
    /\ calls[i].pc = "ready"
    /\ ~MoreProbes(calls[i].retries)
    /\ calls' = [calls EXCEPT ![i].pc = "got", ![i].page = curPage]
    /\ UNCHANGED <<cachedSession, browser, context, curPage, open, sessionsMade,
                   connsMade, connOf, made, returned, liveConns>>
    /\ UNCHANGED treeVars

\* The rest of a tool that works on the page getPage returned and stores
\* nothing (bbNavigate, bbClick, bbSnapshot, ...)
UsePage(i) ==
    /\ calls[i].pc = "got"
    /\ calls' = [calls EXCEPT ![i] = IdleCall]
    /\ UNCHANGED <<cachedSession, browser, context, curPage, open, sessionsMade,
                   connsMade, connOf, made, returned, liveConns>>
    /\ UNCHANGED treeVars

\* The rest of bbNewTab: a new page of the context of the page getPage
\* returned becomes _page (newPage throws if there is no such open page)
bbNewTab(i) ==
    /\ calls[i].pc = "got"
    /\ Len(connOf) < MaxPages
    /\ IF calls[i].page \in open
       THEN /\ connOf' = Append(connOf, connOf[calls[i].page])
            /\ open' = open \cup {Len(connOf) + 1}
            /\ curPage' = Len(connOf) + 1
       ELSE UNCHANGED <<connOf, open, curPage>>
    /\ calls' = [calls EXCEPT ![i] = IdleCall]
    /\ UNCHANGED <<cachedSession, browser, context, sessionsMade, connsMade, made,
                   returned, liveConns>>
    /\ UNCHANGED treeVars

\* The rest of bbSwitchTab: _page = pages[index], or the range error
bbSwitchTab(i, index) ==
    /\ calls[i].pc = "got"
    /\ calls[i].page # NoPage
    /\ LET pages == PagesOf(open, connOf, connOf[calls[i].page])
       IN IF index < 0 \/ index >= Len(pages)
          THEN UNCHANGED curPage
          ELSE curPage' = pages[index + 1]
    /\ calls' = [calls EXCEPT ![i] = IdleCall]
    /\ UNCHANGED <<cachedSession, browser, context, open, sessionsMade, connsMade,
                   connOf, made, returned, liveConns>>
    /\ UNCHANGED treeVars

\* The rest of bbCloseTab: the target (the last page without an index) is
\* closed and _page becomes the last page that remains, if one does
bbCloseTab(i, index) ==
    /\ calls[i].pc = "got"
    /\ calls[i].page # NoPage
    /\ LET out == closeTab(open, connOf, curPage, calls[i].page, index)
       IN /\ open' = out.open
          /\ curPage' = out.curPage
    /\ calls' = [calls EXCEPT ![i] = IdleCall]
    /\ UNCHANGED <<cachedSession, browser, context, sessionsMade, connsMade,
                   connOf, made, returned, liveConns>>
    /\ UNCHANGED treeVars

\* A bbClose that leaves the cached session in place
CloseDoneKeepsSession(i) ==
    /\ curPage' = NoPage
    /\ context' = 0
    /\ browser' = 0
    /\ calls' = [calls EXCEPT ![i] = IdleCall]
    /\ UNCHANGED <<cachedSession, made, returned, refMap>>

\* A bbClose that empties the ref map with the rest
CloseDoneClearsRefs(i) ==
    /\ curPage' = NoPage
    /\ context' = 0
    /\ browser' = 0
    /\ cachedSession' = 0
    /\ made' = {}
    /\ returned' = {}
    /\ calls' = [calls EXCEPT ![i] = IdleCall]
    /\ refMap' = EmptyMap

\* What bbClose ends with: the three references nulled, clearCachedSession.
\* _refMap is not touched.
CloseDone(i) ==
    /\ curPage' = NoPage
    /\ context' = 0
    /\ browser' = 0
    /\ cachedSession' = 0
    /\ made' = {}
    /\ returned' = {}
    /\ calls' = [calls EXCEPT ![i] = IdleCall]
    /\ UNCHANGED refMap

\* bbClose: `if (_context) await _context.close().catch(() => {})`.  The
\* close takes the context's pages with it, or fails and is swallowed.  With
\* neither a context nor a browser there is nothing to await.
bbClose(i) ==
    /\ calls[i].pc = "idle"
    /\ IF context # 0
       THEN /\ \E closes \in BOOLEAN :
                 open' = IF closes THEN {pg \in open : connOf[pg] # context} ELSE open
            /\ calls' = [calls EXCEPT ![i] = Call("closing", NoPage)]
            /\ UNCHANGED <<cachedSession, browser, context, curPage, made, returned,
                           liveConns, refMap>>
       ELSE IF browser # 0
       THEN /\ \E closes \in BOOLEAN :
                 /\ open' = IF closes THEN {pg \in open : connOf[pg] # browser} ELSE open
                 /\ liveConns' = IF closes THEN liveConns \ {browser} ELSE liveConns
            /\ calls' = [calls EXCEPT ![i] = Call("closed", NoPage)]
            /\ UNCHANGED <<cachedSession, browser, context, curPage, made, returned,
                           refMap>>
       ELSE CloseDone(i) /\ UNCHANGED <<open, liveConns>>
    /\ UNCHANGED <<sessionsMade, connsMade, connOf>>
    /\ UNCHANGED <<page, last, T1, T2, reply>>

\* `if (_browser) await _browser.close().catch(() => {})`, with _browser as
\* it is once the context's close has settled: the close ends the browser's
\* connection and its pages, or fails and is swallowed
bbCloseBrowser(i) ==
    /\ calls[i].pc = "closing"
    /\ IF browser # 0
       THEN /\ \E closes \in BOOLEAN :
                 /\ open' = IF closes THEN {pg \in open : connOf[pg] # browser} ELSE open
                 /\ liveConns' = IF closes THEN liveConns \ {browser} ELSE liveConns
            /\ calls' = [calls EXCEPT ![i] = Call("closed", NoPage)]
            /\ UNCHANGED <<cachedSession, browser, context, curPage, made, returned,
                           refMap>>
       ELSE CloseDone(i) /\ UNCHANGED <<open, liveConns>>
    /\ UNCHANGED <<sessionsMade, connsMade, connOf>>
    /\ UNCHANGED <<page, last, T1, T2, reply>>

\* The browser's close has settled
bbCloseEnds(i) ==
    /\ calls[i].pc = "closed"
    /\ CloseDone(i)
    /\ UNCHANGED <<open, sessionsMade, connsMade, connOf, liveConns>>
    /\ UNCHANGED <<page, last, T1, T2, reply>>

\* The cached page is closed from the browser's side
PageCloses ==
    /\ curPage \in open
    /\ open' = open \ {curPage}
    /\ UNCHANGED <<cachedSession, browser, context, curPage, calls, sessionsMade,
                   connsMade, connOf, made, returned, liveConns>>
    /\ UNCHANGED treeVars

InitConn ==
    /\ refMap = EmptyMap
    /\ page = <<>>
    /\ last = NoCall
    /\ T1 = {}
    /\ T2 = {}
    /\ reply = NoReply
    /\ ConnInit

NextConn ==
    \/ \E i \in Slots : getPage(i)
    \/ \E i \in Slots : getOrCreateSession(i)
    \/ \E i \in Slots : SessionFails(i)
    \/ \E i \in Slots : connectOverCDP(i)
    \/ \E i \in Slots : ConnectFails(i)
    \/ \E i \in Slots : PageReady(i)
    \/ \E i \in Slots : UsePage(i)
    \/ \E i \in Slots : bbNewTab(i)
    \/ \E i \in Slots, index \in TabIndexes \ {-1} : bbSwitchTab(i, index)
    \/ \E i \in Slots, index \in TabIndexes : bbCloseTab(i, index)
    \/ \E i \in Slots : bbClose(i)
    \/ \E i \in Slots : bbCloseBrowser(i)
    \/ \E i \in Slots : bbCloseEnds(i)
    \/ PageCloses

SpecConn == InitConn /\ [][NextConn]_vars

----------------------------------------------------------------------------
(* Calls made one after the other (the server handles one tool call at a   *)
(* time): the connection's steps for a single call in flight, and the      *)
(* snapshot and ref tools run whole while the connection is up.            *)

\* No call is in flight and getPage would hand back the cached page
ConnectionUp == calls["a"].pc = "idle" /\ PageIsCached(curPage, open)

\* The refs the agent passes: the two that every snapshot of the example page
\* hands out, and one that only the non-compact snapshot does
SeqRefs == {RefToken(0), RefToken(1), RefToken(3)}

InitSeq ==
    /\ refMap = EmptyMap
    /\ page = ExamplePage
    /\ last = NoCall
    /\ T1 = {}
    /\ T2 = {}
    /\ reply = NoReply
    /\ ConnInit

\* A call starts, and runs, once the previous reply went back
NextSeq ==
    \/ Idle /\ getPage("a")
    \/ Idle /\ getOrCreateSession("a")
    \/ Idle /\ SessionFails("a")
    \/ Idle /\ connectOverCDP("a")
    \/ Idle /\ ConnectFails("a")
    \/ Idle /\ PageReady("a")
    \/ Idle /\ UsePage("a")
    \/ Idle /\ bbNewTab("a")
    \/ Idle /\ \E index \in TabIndexes \ {-1} : bbSwitchTab("a", index)
    \/ Idle /\ \E index \in TabIndexes : bbCloseTab("a", index)
    \/ Idle /\ bbClose("a")
    \/ Idle /\ bbCloseBrowser("a")
    \/ Idle /\ bbCloseEnds("a")
    \/ Idle /\ PageCloses
    \/ ConnectionUp /\ Snapshot
    \/ ConnectionUp /\ \E ref \in SeqRefs : bbClick(ref)
    \/ ConnectionUp /\ \E ref \in SeqRefs : bbFill(ref, FALSE)
    \/ ConnectionUp /\ \E ref \in SeqRefs : bbSelect(ref)
    \/ Deliver

SpecSeq == InitSeq /\ [][NextSeq]_vars

----------------------------------------------------------------------------
(* getPage with its readiness loop taken probe by probe, for calls made    *)
(* one after the other.  A probe settles and the sleep after a failed one  *)
(* ends, so the loop takes its next step: weak fairness on the loop.       *)

NextReady ==
    \/ getPage("a")
    \/ getOrCreateSession("a")
    \/ SessionFails("a")
    \/ connectOverCDP("a")
    \/ ConnectFails("a")
    \/ ProbeFails("a")
    \/ ProbeSucceeds("a")
    \/ ProbesExhausted("a")
    \/ UsePage("a")
    \/ PageCloses

ReadinessLoop == ProbeFails("a") \/ ProbeSucceeds("a") \/ ProbesExhausted("a")

SpecReady == InitConn /\ [][NextReady]_vars /\ WF_vars(ReadinessLoop)

----------------------------------------------------------------------------
(* Node arrays that are not trees: a child id may name no node, a node may *)
(* be listed by no parent or by two, and the links only lead forward, so   *)
(* no chain of child ids comes back to a node.                             *)

MaxGraphNodes == 3

\* An id that no node of the array carries
UnknownId == 0

\* Node i is the button named i; it lists the children links[i], in order
GraphPage(n, links) ==
    [i \in 1..n |->
        CdpNode(i, Kind(<<"button">>, NumStr(i), FALSE), SortedSeq(links[i]))]

IsGraphPage(p, maxNodes) ==
    \E n \in 0..maxNodes : \E links \in [1..n -> SUBSET (0..n)] :
        /\ \A i \in 1..n : links[i] \subseteq ({UnknownId} \cup ((i + 1)..n))
        /\ p = GraphPage(n, links)

InitGraph ==
    /\ refMap = EmptyMap
    /\ IsGraphPage(page, MaxGraphNodes)
    /\ last = NoCall
    /\ T1 = {}
    /\ T2 = {}
    /\ reply = NoReply
    /\ ConnInit

NextGraph == Snapshot

SpecGraph == InitGraph /\ [][NextGraph]_vars

----------------------------------------------------------------------------
(* Properties *)

RefOps == {"click", "fill", "select"}

\* The surface forms of a token
SurfaceForms(token) == {pre \o token : pre \in RefPrefixes}

Tokens == {RefToken(i) : i \in 0..MaxNodes}

\* The index a node of a pre-order listing should carry: how many earlier
\* nodes have its (role, name) pair
ExpectedIndex(w, i) ==
    Cardinality({j \in 1..(i - 1) : w[j].role = w[i].role /\ w[j].name = w[i].name})

\* The table a pre-order listing of a tree stands for
ExpectedTable(w) ==
    [t \in {RefToken(i - 1) : i \in 1..Len(w)} |->
        LET i == CHOOSE j \in 1..Len(w) : RefToken(j - 1) = t
        IN RefEntry(w[i].role, w[i].name, ExpectedIndex(w, i))]

\* The ref map a snapshot of these nodes assigns (nothing for a null tree)
SnapshotMap(cdpNodes, compact) ==
    LET tree == cdpNodesToTree(cdpNodes, compact)
    IN IF tree = <<>> THEN EmptyMap ELSE buildRefTree(EmptyMap, tree[1]).refMap

InteractiveRefs(map) == {k \in DOMAIN map : isInteractive(map[k].role)}

InteractiveEntries(map) == {map[k] : k \in InteractiveRefs(map)}

\* C1: once a snapshot has built T2 after earlier snapshots built T1, a
\* click, fill or select given a token that is in T1 and not in T2 (bare or in
\* any surface form) fails with the unknown-ref error.
StaleRefRejected ==
    (/\ last.op \in RefOps
     /\ \E t \in T1 \ T2 : last.ref \in SurfaceForms(t))
        => last.status = "RefNotFound"

StaleRefWitness ==
    /\ last.op = "click"
    /\ T2 # {}
    /\ last.ref \in T1 \ T2
    /\ last.status = "RefNotFound"

\* C2: after every snapshot call that returns, including one that returns
\* '(empty page)', the ref map holds exactly the entries of the tree that
\* snapshot walked (none for a null tree).
SnapshotRebuildsRefTable ==
    (last.op = "snapshot" /\ last.status = "ok")
        => refMap = ExpectedTable(last.walked)

\* C3: click, fill and select alike act on the first live match when the
\* stored index k > 0 and the number n of live matches has 1 <= n <= k.
FallbackOnDrift ==
    (/\ last.op \in RefOps
     /\ last.entry # <<>>
     /\ last.entry[1].index > 0
     /\ last.matches >= 1
     /\ last.matches <= last.entry[1].index)
        => (last.status = "ok" /\ last.nth = 0)

\* C4: click, fill and select alike fail with the element-not-found error,
\* naming ref, role and name, when the ref is in the map and no live element
\* matches; nothing is acted on.
ElementNotFoundReported ==
    (/\ last.op \in RefOps
     /\ last.entry # <<>>
     /\ last.matches = 0)
        => /\ last.status = "ElementNotFound"
           /\ last.message = NoElementMessage(last.ref, last.entry[1])
           /\ last.nth = -1
           /\ last.acts = <<>>

\* C5: a click, fill or select whose cleaned token is no key of the ref map
\* fails with the unknown-ref error that tells the caller to snapshot, sends
\* no query and no action to the page, and leaves the ref map as it was.
UnknownRefHasNoEffect ==
    [][(/\ last.op = "none"
        /\ last'.op \in RefOps
        /\ \E t \in Tokens \ DOMAIN refMap : last'.ref \in SurfaceForms(t))
          => /\ last'.status = "RefNotFound"
             /\ last'.message = UnknownRefMessage(last'.ref)
             /\ ~last'.queried
             /\ last'.nth = -1
             /\ last'.acts = <<>>
             /\ refMap' = refMap]_vars

UnknownRefWitness ==
    /\ last.op = "fill"
    /\ T2 = {}
    /\ last.ref = <<"@">> \o RefToken(0)
    /\ last.status = "RefNotFound"

\* C6 as stated: the tokens a snapshot assigns to the nodes of an
\* interactive role are the same set with compact mode on and off.
InteractiveRefsSameInBothModes ==
    (last.op = "snapshot" /\ last.status = "ok")
        => InteractiveRefs(SnapshotMap(page, last.compact))
              = InteractiveRefs(SnapshotMap(page, ~last.compact))

\* C6, amended: the entries (role, name, index) a snapshot assigns to the
\* nodes of an interactive role are the same set with compact mode on and
\* off; their tokens may differ.
InteractiveEntriesSameInBothModes ==
    (last.op = "snapshot" /\ last.status = "ok")
        => InteractiveEntries(SnapshotMap(page, last.compact))
              = InteractiveEntries(SnapshotMap(page, ~last.compact))

InteractiveEntriesWitness ==
    /\ last.op = "snapshot"
    /\ last.status = "ok"
    /\ last.compact
    /\ InteractiveEntries(refMap) # {}
    /\ InteractiveEntries(refMap) = InteractiveEntries(SnapshotMap(page, FALSE))
    /\ InteractiveRefs(refMap) # InteractiveRefs(SnapshotMap(page, FALSE))

ExampleLines ==
    <<<<"RootWebArea", " ", "\"", "Example", "\"">>,
      <<" ", " ", "[", "0", "-", "1", "]", " ", "button", " ", "\"", "Go", "\"">>>>

ExampleSnapshot ==
    /\ last.op = "snapshot"
    /\ last.status = "ok"
    /\ last.compact
    /\ page = ExamplePage

\* C7 as stated: the compact snapshot of the example gives the two lines
\* and leaves a ref map of exactly one entry, 0-1, the button.
ExampleLeavesOneEntry ==
    ExampleSnapshot
        => /\ last.text = ExampleLines
           /\ DOMAIN refMap = {RefToken(1)}
           /\ refMap[RefToken(1)] = RefEntry(<<"button">>, <<"Go">>, 0)

\* C7, amended: the compact snapshot of the example gives the two lines and
\* leaves a ref map of exactly two entries, 0-0 for the RootWebArea and 0-1
\* for the button; only 0-1 appears, bracketed, in the text.
ExampleLeavesTwoEntries ==
    ExampleSnapshot
        => /\ last.text = ExampleLines
           /\ DOMAIN refMap = {RefToken(0), RefToken(1)}
           /\ refMap[RefToken(0)] = RefEntry(<<"RootWebArea">>, <<"Example">>, 0)
           /\ refMap[RefToken(1)] = RefEntry(<<"button">>, <<"Go">>, 0)

ExampleWitness == ExampleSnapshot /\ Len(last.text) = 2

\* C8: after a snapshot, the index stored for every node of the walked tree
\* is the number of nodes earlier in the walk with an equal (role, name) pair,
\* whatever the role and name strings.
IndexCountsEqualPairs ==
    (last.op = "snapshot" /\ last.status = "ok" /\ last.walked # <<>>)
        => \A i \in 1..Len(last.walked) :
              /\ RefToken(i - 1) \in DOMAIN refMap
              /\ refMap[RefToken(i - 1)].index = ExpectedIndex(last.walked, i)

\* C9: click, fill and select alike act on the live match at position k
\* (0-based) when the entry's index is k and more than k live elements match.
IndexedResolution ==
    (/\ last.op \in RefOps
     /\ last.entry # <<>>
     /\ last.matches > last.entry[1].index)
        => (last.status = "ok" /\ last.nth = last.entry[1].index)

IndexedResolutionWitness ==
    /\ last.op = "fill"
    /\ last.entry # <<>>
    /\ last.entry[1].index = 2
    /\ last.matches = 3
    /\ last.nth = 2

\* C10: a token resolves alike bare, behind "@" and behind "ref=" in any
\* letter case: to its entry if it is a key of the ref map, to the
\* unknown-ref error if not.
SurfaceFormsEquivalent ==
    \A t \in Tokens :
        /\ \A f \in SurfaceForms(t) :
              resolveRef(refMap, f) = IF t \in DOMAIN refMap THEN <<refMap[t]>> ELSE <<>>
        /\ (last.op \in RefOps /\ last.ref \in SurfaceForms(t))
              => IF t \in DOMAIN refMap
                 THEN last.entry = <<refMap[t]>> /\ last.status # "RefNotFound"
                 ELSE last.entry = <<>> /\ last.status = "RefNotFound"

SurfaceFormsWitness ==
    /\ last.op = "select"
    /\ last.ref = <<"R", "E", "F", "=">> \o RefToken(1)
    /\ RefToken(1) \in DOMAIN refMap
    /\ last.entry = <<refMap[RefToken(1)]>>
    /\ last.status = "ok"

\* C11: after a snapshot walked a tree of n nodes, the keys of the ref map
\* are exactly 0-0 .. 0-(n-1), and the entry under 0-i carries the role and
\* the name of the i-th node of the tree in pre-order.
RefNumbering ==
    (last.op = "snapshot" /\ last.status = "ok" /\ last.walked # <<>>)
        => /\ DOMAIN refMap = {RefToken(i) : i \in 0..(Len(last.walked) - 1)}
           /\ \A i \in 1..Len(last.walked) :
                 /\ refMap[RefToken(i - 1)].role = last.walked[i].role
                 /\ refMap[RefToken(i - 1)].name = last.walked[i].name

\* A later snapshot, of fewer nodes than an earlier one, whose tree has a
\* non-interactive parent above an interactive child
RefNumberingWitness ==
    /\ last.op = "snapshot"
    /\ last.status = "ok"
    /\ Len(last.walked) = 2
    /\ ~isInteractive(last.walked[1].role)
    /\ last.walked[1].children # <<>>
    /\ isInteractive(last.walked[2].role)
    /\ RefToken(2) \in T1
    /\ DOMAIN refMap = {RefToken(0), RefToken(1)}

NoiseRoles == {<<"none">>, <<"generic">>, <<"InlineTextBox">>, <<"LineBreak">>,
               <<"StaticText">>}

\* The raw nodes of the page that are not marked ignored
Unignored(cdpNodes) == {i \in 1..Len(cdpNodes) : ~cdpNodes[i].ignored}

\* C12: in compact mode a node that is not ignored is elided exactly when
\* its role is a noise role and its name is empty: it gives its one surviving
\* child, nothing if none survives, and an unnamed "group" over all of them,
\* in order, if two or more do.  Every other node, and every node with
\* compact mode off, stays, over its surviving children; and the tree the
\* snapshot walked is the root's.
CompactElisionRule ==
    (last.op = "snapshot" /\ last.status = "ok")
        => /\ \A i \in Unignored(page) :
                 LET x == page[i]
                     kids == convertChildren(page, last.compact, x.childIds, 1)
                     out == convert(page, last.compact, x)
                 IN IF last.compact /\ x.role \in NoiseRoles /\ x.name = <<>>
                    THEN /\ Len(kids) = 0 => out = <<>>
                         /\ Len(kids) = 1 => out = <<kids[1]>>
                         /\ Len(kids) >= 2 =>
                               /\ Len(out) = 1
                               /\ out[1].role = <<"group">>
                               /\ out[1].name = <<>>
                               /\ out[1].children = kids
                    ELSE /\ Len(out) = 1
                         /\ out[1].role = x.role
                         /\ out[1].name = x.name
                         /\ out[1].children = kids
           /\ (page # <<>> /\ ~page[1].ignored)
                 => last.walked = PreOrderOf(convert(page, last.compact, page[1]))

\* A compact snapshot of four nodes: an elided root with two surviving
\* children, one of them the only child of an elided node
CompactElisionWitness ==
    /\ last.op = "snapshot"
    /\ last.status = "ok"
    /\ last.compact
    /\ Len(page) = 4
    /\ Len(last.walked) = 3
    /\ last.walked[1].role = <<"group">>
    /\ Len(last.walked[1].children) = 2
    /\ \E i \in 2..4 : /\ page[i].role = <<"generic">>
                        /\ Len(convertChildren(page, TRUE, page[i].childIds, 1)) = 1

\* The ids of the raw nodes the browser shows: the root if it is not ignored,
\* and every node that is not ignored under a shown node.  k bounds the depth.
RECURSIVE ShownWithin(_, _, _)
ShownWithin(cdpNodes, S, k) ==
    IF k = 0 THEN S
    ELSE ShownWithin(cdpNodes,
            S \cup {cdpNodes[c].nodeId : c \in
                      {c \in 1..Len(cdpNodes) :
                          /\ ~cdpNodes[c].ignored
                          /\ \E p \in 1..Len(cdpNodes) :
                                /\ cdpNodes[p].nodeId \in S
                                /\ \E j \in 1..Len(cdpNodes[p].childIds) :
                                      cdpNodes[p].childIds[j] = cdpNodes[c].nodeId}},
            k - 1)

Shown(cdpNodes) ==
    IF cdpNodes = <<>> \/ cdpNodes[1].ignored THEN {}
    ELSE ShownWithin(cdpNodes, {cdpNodes[1].nodeId}, Len(cdpNodes))

\* The shown raw nodes that compact mode does not elide
Kept(cdpNodes) ==
    {i \in 1..Len(cdpNodes) :
        /\ cdpNodes[i].nodeId \in Shown(cdpNodes)
        /\ ~(cdpNodes[i].role \in NoiseRoles /\ cdpNodes[i].name = <<>>)}

\* C13 as stated: with either flag the normalizer returns none exactly when
\* the input is empty or its root is ignored, and one root otherwise.
NoneOnlyForEmptyOrIgnoredRoot ==
    (last.op = "snapshot" /\ last.status = "ok")
        => LET tree == cdpNodesToTree(page, last.compact)
           IN /\ Len(tree) <= 1
              /\ (tree = <<>>) <=> (page = <<>> \/ page[1].ignored)
              /\ (last.text = <<<<"(empty page)">>>>) <=> (page = <<>> \/ page[1].ignored)

\* C13, amended: the normalizer returns none exactly when the input is
\* empty, its root is ignored, or, in compact mode, every shown node is an
\* unnamed node of a noise role; it returns one root otherwise.
NoneAlsoForElidedRoot ==
    (last.op = "snapshot" /\ last.status = "ok")
        => LET tree == cdpNodesToTree(page, last.compact)
               none == \/ page = <<>>
                       \/ page[1].ignored
                       \/ last.compact /\ Kept(page) = {}
           IN /\ Len(tree) <= 1
              /\ (tree = <<>>) <=> none
              /\ (last.text = <<<<"(empty page)">>>>) <=> none

\* A compact snapshot that returns none for a root that is not ignored, and
\* whose page the other mode gives a tree
ElidedRootWitness ==
    /\ last.op = "snapshot"
    /\ last.status = "ok"
    /\ last.compact
    /\ Len(page) >= 2
    /\ ~page[1].ignored
    /\ Cardinality(Shown(page)) >= 2
    /\ last.text = <<<<"(empty page)">>>>
    /\ cdpNodesToTree(page, FALSE) # <<>>

\* How many nodes of a pre-order listing, and how many of a set of raw
\* nodes, carry a role and a name
CountWalked(w, role, name) ==
    Cardinality({i \in 1..Len(w) : w[i].role = role /\ w[i].name = name})

CountRaw(cdpNodes, S, role, name) ==
    Cardinality({i \in S : cdpNodes[i].role = role /\ cdpNodes[i].name = name})

\* C14: a node marked ignored, and every node under one, is absent from the
\* tree the snapshot walks, in either mode: the walked nodes are, label by
\* label and in number, the shown raw nodes (those compact mode keeps, and
\* the groups it adds, in compact mode), and there is one line and one ref
\* for each of them and no other.
IgnoredSubtreesAbsent ==
    (last.op = "snapshot" /\ last.status = "ok")
        => LET w == last.walked
               from == IF last.compact THEN Kept(page)
                       ELSE {i \in 1..Len(page) : page[i].nodeId \in Shown(page)}
               groups == {i \in 1..Len(w) : w[i].role = <<"group">>}
           IN /\ \A i \in 1..Len(page) :
                    CountWalked(w, page[i].role, page[i].name)
                        = CountRaw(page, from, page[i].role, page[i].name)
              /\ Len(w) = Cardinality(from) + Cardinality(groups)
              /\ ~last.compact => groups = {}
              /\ w # <<>> => /\ Len(last.text) = Len(w)
                             /\ Cardinality(DOMAIN refMap) = Len(w)

\* A snapshot of a page with an ignored node that is not the root and has a
\* child which is not itself ignored: neither is walked
IgnoredSubtreesWitness ==
    /\ last.op = "snapshot"
    /\ last.status = "ok"
    /\ last.walked # <<>>
    /\ \E i \in 2..Len(page) :
          /\ page[i].ignored
          /\ \E c \in 1..Len(page) :
                /\ ~page[c].ignored
                /\ page[i].childIds = <<page[c].nodeId>>
                /\ page[c].nodeId \notin Shown(page)
    /\ Len(last.walked) < Cardinality(Unignored(page))

\* The lines of a text: the runs between its line breaks
RECURSIVE SplitLines(_)
SplitLines(text) ==
    LET breaks == {i \in 1..Len(text) : text[i] = "\n"}
    IN IF breaks = {} THEN <<text>>
       ELSE LET b == CHOOSE i \in breaks : \A j \in breaks : i <= j
            IN <<SubSeq(text, 1, b - 1)>> \o SplitLines(SubSeq(text, b + 1, Len(text)))

\* The depth of every node of a tree, in pre-order
RECURSIVE DepthsAll(_, _, _)
RECURSIVE Depths(_, _)
DepthsAll(children, i, d) ==
    IF i > Len(children) THEN <<>>
    ELSE Depths(children[i], d) \o DepthsAll(children, i + 1, d)

Depths(node, d) == <<d>> \o DepthsAll(node.children, 1, d + 1)

\* These lines are laid out as the nodes of the walk w: one line per node,
\* indented two spaces per level, opening with the node's bracketed key if
\* and only if its role is interactive
LaidOut(lines, w, map) ==
    /\ Len(lines) = Len(w)
    /\ \A i \in 1..Len(w) :
          i <= Len(lines) =>
            LET line == lines[i]
                ind == 2 * Depths(w[1], 0)[i]
                tok == <<"[">> \o RefToken(i - 1) \o <<"]">>
            IN /\ Len(line) > ind
               /\ \A k \in 1..ind : line[k] = " "
               /\ line[ind + 1] # " "
               /\ isInteractive(w[i].role)
                     <=> /\ Len(line) >= ind + Len(tok)
                         /\ SubSeq(line, ind + 1, ind + Len(tok)) = tok
               /\ isInteractive(w[i].role)
                     => /\ RefToken(i - 1) \in DOMAIN map
                        /\ map[RefToken(i - 1)].role = w[i].role
                        /\ map[RefToken(i - 1)].name = w[i].name

\* C15: the text of a snapshot has exactly one line per node of the walked
\* tree, in pre-order, indented two spaces per level; a line opens with the
\* bracketed token "[0-i]" if and only if the node's role is interactive, and
\* the token is the node's own key in the ref map.
TextHasOneLinePerNode ==
    (last.op = "snapshot" /\ last.status = "ok" /\ last.walked # <<>>)
        => LaidOut(SplitLines(SnapshotText(last.text)), last.walked, refMap)

\* The same layout holds of the entries buildRefTree joins into the text
EntriesLaidOut ==
    (last.op = "snapshot" /\ last.status = "ok" /\ last.walked # <<>>)
        => LaidOut(last.text, last.walked, refMap)

\* The fields of a node's line in the stated order, each left out when it is
\* absent or false; a false checked field is printed if showUnchecked
Fields(node, token, showUnchecked) ==
    LET Opt(present, field) == IF present THEN <<field>> ELSE <<>>
    IN Opt(isInteractive(node.role), <<"[">> \o token \o <<"]">>)
       \o <<node.role>>
       \o Opt(node.name # <<>>, <<"\"">> \o node.name \o <<"\"">>)
       \o Opt(node.value # <<>>, <<"value=", "\"">> \o node.value \o <<"\"">>)
       \o Opt(node.checked = "mixed", <<"checked=", "mixed">>)
       \o Opt(node.checked = "true", <<"checked=", "true">>)
       \o Opt(node.checked = "false" /\ showUnchecked, <<"checked=", "false">>)
       \o Opt(node.disabled, <<"disabled">>)
       \o Opt(node.focused, <<"focused">>)

LinesAre(showUnchecked) ==
    \A i \in 1..Len(last.walked) :
        /\ i <= Len(last.text)
        /\ last.text[i] = Repeat(<<" ", " ">>, Depths(last.walked[1], 0)[i])
                            \o Join(Fields(last.walked[i], RefToken(i - 1), showUnchecked),
                                    <<" ">>)

\* C16 as stated: a line lists [ref], role, quoted name, value=, checked=,
\* disabled, focused in that order and leaves out every field that is absent
\* or false, a false checked field included.
LineOmitsFalseChecked ==
    (last.op = "snapshot" /\ last.status = "ok") => LinesAre(FALSE)

\* C16, amended: the same order; the checked field is left out only when the
\* node has none, and is printed as checked=false when it is false.
LinePrintsFalseChecked ==
    (last.op = "snapshot" /\ last.status = "ok") => LinesAre(TRUE)

\* The line of a named checkbox with a value that is not checked, disabled
\* and focused
LineFieldsWitness ==
    /\ last.op = "snapshot"
    /\ last.status = "ok"
    /\ Len(last.walked) = 1
    /\ last.walked[1].checked = "false"
    /\ last.text = <<<<"[", "0", "-", "0", "]", " ", "checkbox", " ", "\"", "Save", "\"",
                       " ", "value=", "\"", "v", "\"", " ", "checked=", "false",
                       " ", "disabled", " ", "focused">>>>

\* C17: a snapshot call made again at once, on the same page with the same
\* flag, returns the text the first call returned and leaves the ref map the
\* first call left, whatever the ref map was before the first call.
SnapshotIdempotent ==
    [][(last.op = "none" /\ last'.op = "snapshot" /\ last'.status = "ok")
          => LET again == bbSnapshotResult(refMap', page', last'.compact)
             IN /\ again.last.text = last'.text
                /\ again.last = last'
                /\ again.refMap = refMap']_vars

\* The second of two snapshots that built the same tokens, on a page of
\* three nodes
SnapshotIdempotentWitness ==
    /\ last.op = "snapshot"
    /\ last.status = "ok"
    /\ Len(last.walked) = 3
    /\ T1 = T2
    /\ T2 = {RefToken(0), RefToken(1), RefToken(2)}
    /\ bbSnapshotResult(refMap, page, last.compact).last.text = last.text

\* The message of the error a failed call threw
ThrownMessage(out) ==
    IF out.status = "RefNotFound" THEN UnknownRefMessage(out.ref)
    ELSE IF out.status = "ElementNotFound" THEN NoElementMessage(out.ref, out.entry[1])
    ELSE IF out.status = "Timeout" THEN TimeoutMessage(out.entry[1])
    ELSE StageMessage(out.stage)

\* C18: whatever the tool function throws (unknown ref, element not found,
\* timeout, connection failure), the handler returns, and does not throw, a
\* result marked isError that carries success = false and the message; when
\* the function succeeds the result has no isError mark.
NoErrorCrossesToolBoundary ==
    (last.op # "none")
        => /\ ~reply.threw
           /\ last.status # "ok"
                 => /\ reply.isError = <<TRUE>>
                    /\ reply.content.success = <<FALSE>>
                    /\ reply.content.value = ThrownMessage(last)
           /\ last.status = "ok"
                 => /\ reply.isError = <<>>
                    /\ reply.content.success = <<>>

\* A fill that timed out, handed back as a marked error with the message
ToolBoundaryWitness ==
    /\ last.op = "fill"
    /\ last.status = "Timeout"
    /\ ~reply.threw
    /\ reply.isError = <<TRUE>>
    /\ reply.content.value = TimeoutMessage(RefEntry(<<"button">>, <<"Save">>, 1))

\* C19: between two clearCachedSession calls (or from the start) at most
\* one session is created, and every getOrCreateSession call that returns in
\* between returns that session, also when calls are in flight together.
OneSessionPerInterval ==
    /\ Cardinality(made) <= 1
    /\ Cardinality(returned) <= 1
    /\ made # {} => returned \subseteq made

\* C20: once a connection is up, a tool call made while the cached page is
\* not closed (and no bbClose has closed it) gets that cached page from
\* getPage at once, and neither that step nor what the tool then does with
\* the page creates a session or opens a CDP connection; the cached page
\* changes only to another page of the same connection.
ConnectionReused ==
    [][\A i \in Slots :
          /\ (/\ calls[i].pc = "idle"
              /\ calls'[i].pc \notin {"idle", "closing"}
              /\ curPage # NoPage
              /\ curPage \in open)
                => /\ calls'[i] = Call("got", curPage)
                   /\ curPage' = curPage
                   /\ sessionsMade' = sessionsMade
                   /\ connsMade' = connsMade
                   /\ cachedSession' = cachedSession
                   /\ browser' = browser
          /\ (calls[i].pc = "got" /\ calls'[i].pc = "idle")
                => /\ sessionsMade' = sessionsMade
                   /\ connsMade' = connsMade
                   /\ cachedSession' = cachedSession
                   /\ browser' = browser
                   /\ (curPage' # curPage /\ calls[i].page # NoPage)
                         => connOf'[curPage'] = connOf[calls[i].page]]_vars

\* A call that got the cached page, the third page of the one connection
\* of the one session, after two new tabs
ConnectionReusedWitness ==
    /\ calls["a"] = Call("got", 3)
    /\ calls["b"] = IdleCall
    /\ curPage = 3
    /\ connOf = <<1, 1, 1>>
    /\ sessionsMade = 1
    /\ connsMade = 1
    /\ browser = 1

\* A step in which the bbClose of slot i returns: after its last await, or at
\* once when it found neither a context nor a browser
CloseReturns(i) ==
    \/ calls[i].pc \in {"closing", "closed"} /\ calls'[i].pc = "idle"
    \/ context = 0 /\ browser = 0 /\ bbClose(i)

\* A step in which slot i enters getPage
EntersGetPage(i) ==
    calls[i].pc = "idle" /\ calls'[i].pc \in {"got", "fetch", "connect"}

\* C21: when bbClose returns, _page, _context and _browser are null and the
\* cached session is cleared, whether the closes went through or failed (a
\* bbClose in flight has no step that abandons it); a call that finds the
\* state bbClose left enters getPage's slow path with no session cached, the
\* session it is given is one the provider had not created before, and the
\* connection it opens is a new one.
CloseCleansUp ==
    [][\A i \in Slots :
          /\ CloseReturns(i)
                => /\ curPage' = NoPage
                   /\ context' = 0
                   /\ browser' = 0
                   /\ cachedSession' = 0
          /\ calls[i].pc \in {"closing", "closed"}
                => calls'[i].pc \in {"closing", "closed", "idle"}
          /\ (/\ EntersGetPage(i)
              /\ curPage = NoPage /\ context = 0 /\ browser = 0 /\ cachedSession = 0)
                => calls'[i].pc = "fetch"
          /\ (calls[i].pc = "fetch" /\ calls'[i].pc = "connect")
                => /\ sessionsMade' = sessionsMade + 1
                   /\ cachedSession' = sessionsMade'
          /\ (calls[i].pc = "connect" /\ calls'[i].pc = "ready")
                => /\ connsMade' = connsMade + 1
                   /\ browser' = connsMade'
                   /\ browser' \notin liveConns
                   /\ curPage' \notin open]_vars

\* After a bbClose whose closes both failed (the page and the connection are
\* still open), the next call was given the second session and opened the
\* second connection
CloseCleansUpWitness ==
    /\ calls["a"].pc = "ready"
    /\ calls["b"] = IdleCall
    /\ cachedSession = 2
    /\ made = {2}
    /\ browser = 2
    /\ open = {1, 2}
    /\ liveConns = {1, 2}

\* What the claim gives for a source `checked` value: "mixed" for the literal
\* "mixed", "false" for boolean false and the string "false", "true" for
\* boolean true and the string "true"
ClaimedChecked(properties) ==
    LET p == LastProp(properties, "checked")
    IN IF p = <<>> THEN "absent"
       ELSE IF p[1] = JSStr(<<"mixed">>) THEN "mixed"
       ELSE IF p[1] \in {JSBool(FALSE), JSStr(<<"false">>)} THEN "false"
       ELSE "true"

\* C22: the checked field of a retained node is "mixed" exactly for the
\* literal "mixed", false for a source value that denotes unchecked (boolean
\* false or the string "false"), true for one that denotes checked, and
\* absent when the node has no checked property.  (The pages are of one
\* node, so the node walked is the page's node.)
CheckedExtraction ==
    (last.op = "snapshot" /\ last.status = "ok" /\ Len(last.walked) = 1)
        => last.walked[1].checked = ClaimedChecked(page[1].properties)

\* C23: _refMap changes only in a snapshot that built a tree, and then to
\* that tree's entries; every other step (a click, fill or select, with a ref
\* that resolves or not; the other page tools; the tab tools; bbClose;
\* getPage's reconnect) leaves it as it was, so every ref resolves after the
\* step as it did before.
OnlySnapshotWritesRefTable ==
    [][/\ refMap' # refMap
            => /\ last.op = "none"
               /\ last'.op = "snapshot"
               /\ last'.status = "ok"
               /\ refMap' = SnapshotMap(page, last'.compact)
       /\ ~(last.op = "none" /\ last'.op = "snapshot")
            => \A ref \in SeqRefs : resolveRef(refMap', ref) = resolveRef(refMap, ref)]_vars

\* The entries of a snapshot made over the first connection are in the map
\* after bbClose and a reconnect, with a call about to use the new page
RefTableWitness ==
    /\ refMap = SnapshotMap(ExamplePage, TRUE)
    /\ RefToken(1) \in DOMAIN refMap
    /\ made = {2}
    /\ connsMade = 2
    /\ calls["a"] = Call("got", 2)
    /\ curPage = 2

\* The entries of the nodes of an interactive role, in the order of the walk
\* (the order of the tokens' numbers)
InteractiveSequence(map) ==
    LET entries == [i \in 1..Cardinality(DOMAIN map) |-> map[RefToken(i - 1)]]
    IN SelectSeq(entries, LAMBDA e : isInteractive(e.role))

\* C24: the (role, name, index) entries of the nodes of an interactive role,
\* taken in pre-order, form the same sequence in the compact and in the
\* non-compact snapshot of a page; only the tokens' numbers may differ.
\* (The ref map holds the entries of the snapshot just made, in its mode.)
CompactKeepsInteractiveSequence ==
    (last.op = "snapshot" /\ last.status = "ok")
        => InteractiveSequence(refMap)
              = InteractiveSequence(SnapshotMap(page, ~last.compact))

\* A compact snapshot in which a text box comes before a button, both under
\* elided nodes, so that their tokens are not those of the non-compact one
InteractiveSequenceWitness ==
    /\ last.op = "snapshot"
    /\ last.status = "ok"
    /\ last.compact
    /\ InteractiveSequence(refMap)
          = <<RefEntry(<<"textbox">>, <<"a", "\n", "b">>, 0),
              RefEntry(<<"button">>, <<"Save">>, 0)>>
    /\ refMap # SnapshotMap(page, FALSE)
    /\ Cardinality(DOMAIN refMap) = 3

\* C25: the tree a compact snapshot walks has no node, at any depth and the
\* root included, whose role is a noise role and whose name is empty.
CompactTreeHasNoNoise ==
    (last.op = "snapshot" /\ last.status = "ok" /\ last.compact)
        => \A i \in 1..Len(last.walked) :
              ~(last.walked[i].role \in NoiseRoles /\ last.walked[i].name = EmptyStr)

\* A compact tree of three nodes under a container that stands for an elided
\* root, where the raw tree had a second elided node below the root
CompactTreeWitness ==
    /\ last.op = "snapshot"
    /\ last.status = "ok"
    /\ last.compact
    /\ Len(last.walked) = 3
    /\ last.walked[1].role = <<"group">>
    /\ Len(page) = 4
    /\ Cardinality({i \in 1..Len(page) :
                       page[i].role \in NoiseRoles /\ page[i].name = EmptyStr}) = 2

\* C26: the process holds at most one open CDP connection: when getPage has
\* opened a connection, every connection it opened before is closed.
SingleConnection == Cardinality(liveConns) <= 1

\* C27: when bbSnapshot fails before the tree is built (getPage,
\* newCDPSession or the getFullAXTree request throws), the ref map is left as
\* it was, the caller gets the error with its message, and a CDP session that
\* was opened has been detached.
FailedSnapshotKeepsTable ==
    [][(last.op = "none" /\ last'.op = "snapshot" /\ last'.status = "Failed")
          => /\ refMap' = refMap
             /\ ~reply'.threw
             /\ reply'.isError = <<TRUE>>
             /\ reply'.content.value = StageMessage(last'.stage)
             /\ last'.cdp # "attached"
             /\ last'.stage = "getFullAXTree" => last'.cdp = "detached"]_vars

\* A snapshot whose request failed, with the three entries of an earlier
\* snapshot still in the map
FailedSnapshotWitness ==
    /\ last.op = "snapshot"
    /\ last.status = "Failed"
    /\ last.stage = "getFullAXTree"
    /\ last.cdp = "detached"
    /\ DOMAIN refMap = {RefToken(0), RefToken(1), RefToken(2)}
    /\ T2 = DOMAIN refMap

\* C28: a bbCloseTab whose index is outside 0..(tab count - 1) fails with the
\* out-of-range error, closes no tab and leaves _page as it was; one that
\* succeeds (without an index the target is the last tab) closes the target
\* tab and no other and, when a tab remains, makes the last remaining tab
\* _page, which is then an open page.
TabCloseRule ==
    [][\A i \in Slots, index \in TabIndexes :
          bbCloseTab(i, index)
             => LET pages == PagesOf(open, connOf, connOf[calls[i].page])
                    count == Len(pages)
                    target == IF index = -1 THEN count - 1 ELSE index
                    out == closeTab(open, connOf, curPage, calls[i].page, index)
                    remaining == PagesOf(open', connOf', connOf[calls[i].page])
                IN /\ (index # -1 /\ index \notin 0..(count - 1))
                         => /\ out.status = "Failed"
                            /\ out.message = RangeMessage(index, count)
                            /\ open' = open
                            /\ curPage' = curPage
                   /\ target \in 0..(count - 1)
                         => /\ out.status = "ok"
                            /\ open' = open \ {pages[target + 1]}
                            /\ pages[target + 1] \in open
                            /\ Len(remaining) > 0
                                  => /\ curPage' = remaining[Len(remaining)]
                                     /\ curPage' \in open']_vars

\* The third of three tabs was closed and the second, the last that remains,
\* is the current page
TabCloseWitness ==
    /\ connOf = <<1, 1, 1>>
    /\ open = {1, 2}
    /\ curPage = 2
    /\ calls["a"] = IdleCall
    /\ calls["b"] = IdleCall

\* C29: after connecting, getPage makes at most 30 readiness probes and stops
\* at the first that succeeds; the loop always ends with getPage returning
\* the page, after 30 failed probes too, and nothing is retried after that.
BoundedReadinessPolling ==
    /\ [](\A i \in Slots :
            /\ calls[i].probes <= 30
            /\ calls[i].pc = "ready" => calls[i].probes = calls[i].retries
            /\ (calls[i].pc = "got" /\ calls[i].probes > 0)
                  => \/ calls[i].probes = calls[i].retries + 1
                     \/ calls[i].probes = 30 /\ calls[i].retries = 30)
    /\ [][\A i \in Slots :
            calls[i].pc = "ready"
               => /\ calls'[i].pc \in {"ready", "got"}
                  /\ calls'[i].pc = "got"
                        => /\ calls'[i].page = curPage
                           /\ curPage # NoPage
                           /\ calls'[i].retries = calls[i].retries]_vars
    /\ (calls["a"].pc = "ready") ~> (calls["a"].pc = "got")

\* getPage returned the page after 30 probes that all failed
ReadinessWitness ==
    /\ calls["a"].pc = "got"
    /\ calls["a"].page = curPage
    /\ calls["a"].retries = 30
    /\ calls["a"].probes = 30

\* The positions of the nodes that the child ids lead to from the first node
RECURSIVE ReachWithin(_, _, _)
ReachWithin(cdpNodes, S, k) ==
    IF k = 0 THEN S
    ELSE ReachWithin(cdpNodes,
            S \cup {j \in 1..Len(cdpNodes) :
                      \E i \in S : \E c \in 1..Len(cdpNodes[i].childIds) :
                          cdpNodes[i].childIds[c] = cdpNodes[j].nodeId},
            k - 1)

Reach(cdpNodes) ==
    IF cdpNodes = <<>> THEN {} ELSE ReachWithin(cdpNodes, {1}, Len(cdpNodes))

\* The child ids of a node that name a node of the array, in order
KnownIds(cdpNodes, cdpNode) ==
    SelectSeq(cdpNode.childIds, LAMBDA id : NodeMapGet(cdpNodes, id) # <<>>)

\* How deep the calls of convert nest below a node
RECURSIVE ConvertDepth(_, _)
ConvertDepth(cdpNodes, cdpNode) ==
    LET known == KnownIds(cdpNodes, cdpNode)
        below == {ConvertDepth(cdpNodes, NodeMapGet(cdpNodes, known[k])[1]) :
                     k \in 1..Len(known)}
    IN IF below = {} THEN 1
       ELSE 1 + (CHOOSE d \in below : \A e \in below : e <= d)

\* C30: on an array whose child ids, followed from the first node, come back
\* to no node, cdpNodesToTree ends (the calls of convert nest no deeper than
\* there are nodes to reach, and the tree is finite); the root is the first
\* element; a child id that names no node is passed over and the children
\* after it are kept; the nodes of the tree are the nodes reachable from the
\* first one, and no other.
NormalizerReachability ==
    (last.op = "snapshot" /\ page # <<>>)
        => /\ last.status = "ok"
           /\ ConvertDepth(page, page[1]) <= Cardinality(Reach(page))
           /\ Len(last.walked) >= 1
           /\ last.walked[1].name = page[1].name
           /\ [k \in 1..Len(last.walked[1].children) |-> last.walked[1].children[k].name]
                 = [k \in 1..Len(KnownIds(page, page[1])) |->
                       NodeMapGet(page, KnownIds(page, page[1])[k])[1].name]
           /\ {last.walked[k].name : k \in 1..Len(last.walked)}
                 = {page[i].name : i \in Reach(page)}

\* The first node lists an id that names no node and then the third node,
\* which also lists an unknown id; nothing lists the second node
NormalizerWitness ==
    /\ last.op = "snapshot"
    /\ last.status = "ok"
    /\ Len(page) = 3
    /\ page[1].childIds = <<UnknownId, 3>>
    /\ page[3].childIds = <<UnknownId>>
    /\ [k \in 1..Len(last.walked) |-> last.walked[k].name] = <<<<"1">>, <<"3">>>>

====
